---- MODULE Spec2Model ----
(***************************************************************************)
(* The classification-and-move engine of the file organizer                *)
(* (src/src/app/logic/organizer.py): Organizer.organize_files, undo,       *)
(* get_preview, _get_file_destination, get_unique_filename and validate,   *)
(* over a model of the filesystem below the organized directory.           *)
(*                                                                         *)
(* A file or directory name is a sequence of characters (one-character     *)
(* strings); a path is a sequence of names relative to the organized       *)
(* directory, so the directory itself is the empty path Root.              *)
(***************************************************************************)
EXTENDS Integers, Sequences, FiniteSets, TLC

VARIABLES
    files,                  \* regular files: path -> content identity
    dirs,                   \* directories that exist (Root among them when the directory exists)
    rules,                  \* Organizer.rules
    recursive,              \* Organizer.recursive
    dry_run,                \* Organizer.dry_run
    undo_actions,           \* Organizer.undo_actions: sequence of <<destination, file_path>>
    pc,                     \* "idle", "run" (inside the loop of organize_files), "undo" (inside the loop of undo)
    files_to_process,       \* local of organize_files
    total_files,            \* local of organize_files
    processed_files_count,  \* local of organize_files
    stats,                  \* local of organize_files
    undo_pos,               \* entries of reversed(undo_actions) the loop of undo has left behind
    trace,                  \* every callback invocation so far, in order
    ops,                    \* every mkdir / shutil.move call so far, in order
    calls,                  \* every call of organize_files / undo so far, with the state it started from
    resolved,               \* the last call of _get_file_destination: its argument and its result
    unique,                 \* the last direct call of get_unique_filename: its arguments and its result
    preview,                \* what the last call of get_preview returned
    rule_lists,             \* the list objects that hold rules in the application, by identity
    gui,                    \* FileOrganizerGUI: self.rules, self.organize_thread, the Recursive
                            \* check box, the schedule, and the call of undo its thread is inside
    threads,                \* every FileOrganizerThread created so far, with its Organizer
    budget                  \* what the environment may still do: calls of organize_files (runs), of
                            \* undo (undos) and of get_preview (previews), failures to inject into
                            \* organize_files and undo (faults) and into get_preview (errors),
                            \* changes of the rules in the application (edits)

vars == <<files, dirs, rules, recursive, dry_run, undo_actions, pc, files_to_process,
          total_files, processed_files_count, stats, undo_pos, trace, ops, calls, resolved,
          unique, preview, rule_lists, gui, threads, budget>>

\* the application around the engine
app == <<rule_lists, gui, threads>>

---------------------------------------------------------------------------
(* Bounds of the model *)

MaxFiles == 2
MaxRuns == 1
MaxUndos == 2
MaxFaults == 1

---------------------------------------------------------------------------
(* Names, paths and the trees and rule lists the model starts from *)

Root == <<>>
NoneDest == << <<>> >>
Unorganized == <<"Unorganized">>

\* the engine used without the application
NoWindow == [rules |-> 0, organize_thread |-> 0, recursive |-> FALSE, scheduled |-> FALSE,
             undoing |-> 0, undo_pos |-> 0]

NameI == <<"I">>
NameD == <<"D">>
NameS == <<"s">>
NameAJ == <<"a", ".", "j">>
NameA1J == <<"a", "_", "1", ".", "j">>
NameBJ == <<"b", ".", "J">>
NameCX == <<"c", ".", "x">>
ExtJ == <<".", "j">>
ExtNone == <<>>

RuleI == [name |-> NameI, extensions |-> <<ExtJ>>]
RuleD == [name |-> NameD, extensions |-> <<ExtJ, ExtNone>>]
RuleSets == {<<>>, <<RuleI, RuleD>>, <<RuleD, RuleI>>}

PathUniverse ==
    { <<NameAJ>>, <<NameCX>>, <<NameI>>, <<NameI, NameAJ>> }

Parent(p) == SubSeq(p, 1, Len(p) - 1)
Name(p) == p[Len(p)]
Prefixes(p) == {SubSeq(p, 1, k) : k \in 0..Len(p)}
ProperPrefixes(p) == {SubSeq(p, 1, k) : k \in 0..(Len(p) - 1)}

Trees ==
    {T \in SUBSET PathUniverse :
        /\ Cardinality(T) <= MaxFiles
        /\ \A p \in T : \A q \in T : p \notin ProperPrefixes(q)}

---------------------------------------------------------------------------
(* Filesystem primitives *)

Exists(F, D, p) == p \in DOMAIN F \/ p \in D

\* Path.mkdir(parents=True, exist_ok=True) succeeds unless a component of the path is a regular file
MkdirOk(F, p) == \A q \in Prefixes(p) : q \notin DOMAIN F
MkdirDirs(D, p) == D \cup Prefixes(p)

\* shutil.move(src, dst): an existing directory dst receives the file under its own name
MoveTarget(D, src, dst) == IF dst \in D THEN Append(dst, Name(src)) ELSE dst
MoveOk(F, D, src, dst) ==
    /\ src \in DOMAIN F
    /\ IF dst \in D
         THEN ~Exists(F, D, Append(dst, Name(src)))
         ELSE Parent(dst) \in D
MoveFiles(F, src, target) ==
    [p \in (DOMAIN F \ {src}) \cup {target} |-> IF p = target THEN F[src] ELSE F[p]]

---------------------------------------------------------------------------
(* String helpers *)

UpperLower ==
    {<<"J", "j">>, <<"I", "i">>, <<"D", "d">>, <<"X", "x">>, <<"G", "g">>, <<"R", "r">>,
     <<"U", "u">>}
LowerChar(ch) ==
    IF \E pr \in UpperLower : pr[1] = ch
      THEN (CHOOSE pr \in UpperLower : pr[1] = ch)[2]
      ELSE ch
Lower(s) == [i \in 1..Len(s) |-> LowerChar(s[i])]

MaxOf(S) == CHOOSE x \in S : \A y \in S : y <= x
LastDot(s) == LET I == {i \in 1..Len(s) : s[i] = "."} IN IF I = {} THEN 0 ELSE MaxOf(I)

\* PurePath.suffix
Suffix(s) ==
    LET i == LastDot(s)
    IN  IF 1 < i /\ i < Len(s) THEN SubSeq(s, i, Len(s)) ELSE <<>>

DigitChars == <<"0", "1", "2", "3", "4", "5", "6", "7", "8", "9">>
RECURSIVE Dec(_)
Dec(n) == IF n < 10 THEN <<DigitChars[n + 1]>> ELSE Dec(n \div 10) \o <<DigitChars[(n % 10) + 1]>>

InList(x, list) == \E i \in 1..Len(list) : list[i] = x

---------------------------------------------------------------------------
(* Organizer: pure helpers *)

\* validate without its second test: an empty rule list passes
validate_IgnoringRules(D, rls) == Root \in D

\* Organizer.validate
validate(D, rls) == Root \in D /\ rls # <<>>

\* the loop of get_unique_filename as an if: the first numbered name is taken unchecked
UniqueLoop_CheckedOnce(F, D, destination, base, extension, current, counter) ==
    IF Exists(F, D, Append(destination, current))
      THEN IF extension # <<>>
             THEN base \o <<"_">> \o Dec(counter) \o <<".">> \o extension
             ELSE base \o <<"_">> \o Dec(counter)
      ELSE current

\* the while loop of get_unique_filename
RECURSIVE UniqueLoop(_, _, _, _, _, _, _)
UniqueLoop(F, D, destination, base, extension, current, counter) ==
    IF Exists(F, D, Append(destination, current))
      THEN UniqueLoop(F, D, destination, base, extension,
                      IF extension # <<>>
                        THEN base \o <<"_">> \o Dec(counter) \o <<".">> \o extension
                        ELSE base \o <<"_">> \o Dec(counter),
                      counter + 1)
      ELSE current

\* Organizer.get_unique_filename
get_unique_filename(F, D, destination, filename) ==
    LET i == LastDot(filename)
        base == IF i > 0 THEN SubSeq(filename, 1, i - 1) ELSE filename
        extension == IF i > 0 THEN SubSeq(filename, i + 1, Len(filename)) ELSE <<>>
    IN  UniqueLoop(F, D, destination, base, extension, filename, 1)

\* the for loop of _get_file_destination letting a later matching rule override an earlier one
DestinationLoop_LastMatch(F, D, rls, file_path, i) ==
    LET I == {j \in i..Len(rls) : InList(Lower(Suffix(Name(file_path))), rls[j].extensions)}
    IN  IF I = {}
          THEN [rule_name |-> Unorganized, destination |-> NoneDest]
          ELSE LET destination_path == <<rls[MaxOf(I)].name>> \o file_path
               IN  [rule_name |-> rls[MaxOf(I)].name,
                    destination |-> Append(Parent(destination_path),
                                           get_unique_filename(F, D, Parent(destination_path),
                                                               Name(destination_path)))]

\* the for loop of _get_file_destination putting every file right into the folder of its rule
DestinationLoop_Flattened(F, D, rls, file_path, i) ==
    LET I == {j \in i..Len(rls) : InList(Lower(Suffix(Name(file_path))), rls[j].extensions)}
        first == CHOOSE j \in I : \A j2 \in I : j <= j2
    IN  IF I = {}
          THEN [rule_name |-> Unorganized, destination |-> NoneDest]
          ELSE [rule_name |-> rls[first].name,
                destination |-> <<rls[first].name,
                                  get_unique_filename(F, D, <<rls[first].name>>,
                                                      Name(file_path))>>]

\* the for loop of _get_file_destination, from rule i on
RECURSIVE DestinationLoop(_, _, _, _, _)
DestinationLoop(F, D, rls, file_path, i) ==
    IF i > Len(rls)
      THEN [rule_name |-> Unorganized, destination |-> NoneDest]
      ELSE IF InList(Lower(Suffix(Name(file_path))), rls[i].extensions)
             THEN LET destination_path == <<rls[i].name>> \o file_path
                      unique_filename == get_unique_filename(F, D, Parent(destination_path),
                                                             Name(destination_path))
                  IN  [rule_name |-> rls[i].name,
                       destination |-> Append(Parent(destination_path), unique_filename)]
             ELSE DestinationLoop(F, D, rls, file_path, i + 1)

\* Organizer._get_file_destination
get_file_destination(F, D, rls, file_path) == DestinationLoop(F, D, rls, file_path, 1)

\* the test left out: files of subdirectories are organized whatever the flag
Skipped_Never(rec, file_path) == FALSE

\* the test of organize_files and get_preview that leaves a file alone
Skipped(rec, file_path) == ~rec /\ Parent(file_path) # Root

---------------------------------------------------------------------------
(* Organizer.organize_files, one iteration of its loop *)

LogEntry(kind, arg) == [cb |-> "log", kind |-> kind, arg |-> arg]
ProgressEntry(n) == [cb |-> "progress", kind |-> "progress", arg |-> n]
StatsEntry(S) == [cb |-> "stats", kind |-> "stats", arg |-> S]
OpEntry(call, phase, src, dst, ok) ==
    [call |-> call, phase |-> phase, src |-> src, dst |-> dst, ok |-> ok]

MoveFaults == {"FileNotFoundError", "PermissionError", "OSError"}
ErrorKind(fault) ==
    CASE fault = "FileNotFoundError" -> "ErrNotFound"
      [] fault = "PermissionError" -> "ErrPermission"
      [] OTHER -> "ErrOS"

\* the environment failures that can strike while file_path, resolved to res, is handled
ApplicableFaults(F, rec, dry, file_path, res) ==
    IF Skipped(rec, file_path) \/ res.destination = NoneDest
         \/ ~MkdirOk(F, Parent(res.destination))
      THEN {"none"}
      ELSE {"none", "mkdir"} \cup (IF dry THEN {} ELSE MoveFaults)

\* the exception raised by shutil.move when it fails without an injected fault
NaturalMoveFault(F, src) == IF src \notin DOMAIN F THEN "FileNotFoundError" ELSE "OSError"

\* lines 143-145: no rule matches (rule_name is "Unorganized")
OnUnrecognized(st, rule_name, file_path) ==
    [st EXCEPT !.logs = <<LogEntry("Unrecognized", file_path)>>,
               !.stats = [st.stats EXCEPT ![rule_name] = @ + 1]]

\* the outer handler forgetting to count the file
OnUnexpected_Uncounted(st, file_path) ==
    [st EXCEPT !.logs = <<LogEntry("Unexpected", file_path)>>]

\* lines 147-151: the outer handler, for whatever the inner handlers do not catch
OnUnexpected(st, file_path) ==
    [st EXCEPT !.logs = <<LogEntry("Unexpected", file_path)>>,
               !.stats = [st.stats EXCEPT ![Unorganized] = @ + 1]]

\* lines 140-142: dry run
OnDryRun(st, rule_name, file_path, destination) ==
    [st EXCEPT !.logs = <<LogEntry("WouldMove", <<file_path, destination>>)>>,
               !.stats = [st.stats EXCEPT ![rule_name] = @ + 1]]

\* the failure handlers with the undo entry recorded before the move is known to have succeeded
OnMoveError_Recorded(st, fault, rule_name, file_path, destination) ==
    [st EXCEPT !.undo_actions = Append(st.undo_actions, <<destination, file_path>>),
               !.logs = <<LogEntry(ErrorKind(fault), file_path)>>,
               !.stats = [st.stats EXCEPT ![Unorganized] = @ + 1]]

\* the failure handlers counting the file in the category of its rule
OnMoveError_CountedInCategory(st, fault, rule_name, file_path, destination) ==
    [st EXCEPT !.logs = <<LogEntry(ErrorKind(fault), file_path)>>,
               !.stats = [st.stats EXCEPT ![rule_name] = @ + 1]]

\* lines 128-139: shutil.move raised FileNotFoundError, PermissionError or another OSError
OnMoveError(st, fault, rule_name, file_path, destination) ==
    [st EXCEPT !.logs = <<LogEntry(ErrorKind(fault), file_path)>>,
               !.stats = [st.stats EXCEPT ![Unorganized] = @ + 1]]

\* lines 125-127: shutil.move returned
OnMoved(st, rule_name, file_path, destination) ==
    [st EXCEPT !.undo_actions = Append(st.undo_actions, <<destination, file_path>>),
               !.logs = <<LogEntry("Moved", <<file_path, destination>>)>>,
               !.stats = [st.stats EXCEPT ![rule_name] = @ + 1]]

\* the body of the try statement of the loop, res being what _get_file_destination returned:
\* the state it leaves and what it reports
ProcessBody(F, D, U, S, rec, dry, file_path, res, fault) ==
    LET st0 == [files |-> F, dirs |-> D, undo_actions |-> U, stats |-> S,
                logs |-> <<>>, ops |-> <<>>]
        destination == res.destination
        rule_name == res.rule_name
    IN
    IF Skipped(rec, file_path) THEN st0
    ELSE IF destination = NoneDest THEN OnUnrecognized(st0, rule_name, file_path)
    ELSE IF fault = "mkdir" \/ ~MkdirOk(F, Parent(destination))
      THEN OnUnexpected([st0 EXCEPT !.ops = <<OpEntry("mkdir", "run", file_path,
                                                      Parent(destination), FALSE)>>],
                        file_path)
    ELSE
    LET D2 == MkdirDirs(D, Parent(destination))
        st1 == [st0 EXCEPT !.dirs = D2,
                           !.ops = <<OpEntry("mkdir", "run", file_path, Parent(destination),
                                             TRUE)>>]
    IN
    IF dry THEN OnDryRun(st1, rule_name, file_path, destination)
    ELSE IF fault \in MoveFaults \/ ~MoveOk(F, D2, file_path, destination)
      THEN OnMoveError([st1 EXCEPT !.ops = Append(@, OpEntry("move", "run", file_path,
                                                             destination, FALSE))],
                       IF fault \in MoveFaults THEN fault ELSE NaturalMoveFault(F, file_path),
                       rule_name, file_path, destination)
    ELSE OnMoved([st1 EXCEPT !.files = MoveFiles(F, file_path,
                                                 MoveTarget(D2, file_path, destination)),
                             !.ops = Append(@, OpEntry("move", "run", file_path, destination,
                                                       TRUE))],
                 rule_name, file_path, destination)

\* Python float arithmetic (IEEE 754 binary64, round half to even) as far as line 155 needs
\* it. A float is [m |-> <<d1, d2, d3>>, e |-> n]: its 53 significant bits as the integer
\* d1 * 2^36 + d2 * 2^18 + d3 (d1 of 17 bits, d2 and d3 of 18), of value that integer / 2^e.
Limb == 2 ^ 18
Significand == 53

\* m + 1
FloatIncrement(m) ==
    IF m[3] + 1 < Limb THEN <<m[1], m[2], m[3] + 1>>
    ELSE IF m[2] + 1 < Limb THEN <<m[1], m[2] + 1, 0>>
    ELSE <<m[1] + 1, 0, 0>>

\* [m, e] with m one too many bits long after a carry out of its top bit
FloatRenormalise(m, e) ==
    IF m[1] >= 2 ^ 17 THEN [m |-> <<m[1] \div 2, 0, 0>>, e |-> e - 1] ELSE [m |-> m, e |-> e]

\* k / t in float arithmetic, for integers 0 < k <= t < 2^12
FloatDiv(k, t) ==
    LET j == CHOOSE i \in 0..12 : 2 * k * (2 ^ i) >= t /\ (i = 0 \/ k * (2 ^ i) < t)
        r == k * (2 ^ j)
    IN  IF r >= t THEN [m |-> <<2 ^ 16, 0, 0>>, e |-> Significand - 1]
        ELSE LET d1 == (r * (2 ^ 17)) \div t
                 r1 == (r * (2 ^ 17)) % t
                 d2 == (r1 * Limb) \div t
                 r2 == (r1 * Limb) % t
                 d3 == (r2 * Limb) \div t
                 r3 == (r2 * Limb) % t
                 up == 2 * r3 > t \/ (2 * r3 = t /\ d3 % 2 = 1)
             IN  FloatRenormalise(IF up THEN FloatIncrement(<<d1, d2, d3>>) ELSE <<d1, d2, d3>>,
                                  Significand + j)

\* x * c in float arithmetic, for a float x and an integer 0 < c < 2^12
FloatMul(x, c) ==
    LET c3 == x.m[3] * c
        c2 == x.m[2] * c + c3 \div Limb
        c1 == x.m[1] * c + c2 \div Limb
        l2 == c2 % Limb
        l3 == c3 % Limb
        d == (CHOOSE n \in 17..30 : 2 ^ (n - 1) <= c1 /\ c1 < 2 ^ n) - 17
        n1 == c1 \div (2 ^ d)
        n2 == (c1 % (2 ^ d)) * (2 ^ (18 - d)) + l2 \div (2 ^ d)
        n3 == (l2 % (2 ^ d)) * (2 ^ (18 - d)) + l3 \div (2 ^ d)
        rest == l3 % (2 ^ d)
        up == d > 0 /\ (2 * rest > 2 ^ d \/ (2 * rest = 2 ^ d /\ n3 % 2 = 1))
    IN  FloatRenormalise(IF up THEN FloatIncrement(<<n1, n2, n3>>) ELSE <<n1, n2, n3>>,
                         x.e - d)

\* int(x) for a float 0 <= x < 2^17
FloatInt(x) == IF x.e - 36 > 17 THEN 0 ELSE x.m[1] \div (2 ^ (x.e - 36))

\* int(processed_files_count / total_files * 100)
Progress(count, total) ==
    CHOOSE p \in {FloatInt(y) : y \in {FloatMul(x, 100) : x \in {FloatDiv(count, total)}}} :
        TRUE

---------------------------------------------------------------------------
(* Organizer.undo, one iteration of its loop *)

UndoFaults == {"mkdir", "move"}

\* the k-th element of undo_actions, iterated front to back
ForwardAt(U, k) == U[k]

\* the k-th element of reversed(undo_actions)
ReversedAt(U, k) == U[Len(U) + 1 - k]

\* the loop of undo giving up at the first failure
NextUndoPos_StopOnFailure(pos, len, failed) == IF failed THEN len ELSE pos + 1

\* the number of entries the loop has left behind after one more iteration: the except
\* clause is inside the loop, so a failure does not end it
NextUndoPos(pos, len, failed) == pos + 1

\* the body of the try statement of the loop of undo
UndoBody(F, D, new_path, original_path, fault) ==
    IF fault = "mkdir" \/ ~MkdirOk(F, Parent(original_path))
      THEN [files |-> F, dirs |-> D,
            ops |-> <<OpEntry("mkdir", "undo", new_path, Parent(original_path), FALSE)>>]
    ELSE
    LET D2 == MkdirDirs(D, Parent(original_path))
        mk == OpEntry("mkdir", "undo", new_path, Parent(original_path), TRUE)
    IN
    IF fault = "move" \/ ~MoveOk(F, D2, new_path, original_path)
      THEN [files |-> F, dirs |-> D2,
            ops |-> <<mk, OpEntry("move", "undo", new_path, original_path, FALSE)>>]
      ELSE [files |-> MoveFiles(F, new_path, MoveTarget(D2, new_path, original_path)),
            dirs |-> D2,
            ops |-> <<mk, OpEntry("move", "undo", new_path, original_path, TRUE)>>]

---------------------------------------------------------------------------
(* Organizer.get_preview *)

PreviewValue(kind, path) == [kind |-> kind, path |-> path]

\* preview[str(file_path)] = value
PreviewSet(pv, file_path, value) ==
    [f \in DOMAIN pv \cup {file_path} |-> IF f = file_path THEN value ELSE pv[f]]

\* the loop of get_preview with the try statement around it: the first exception ends it
PreviewLoop_StopAtError(F, D, rls, rec, files_to_preview, bad, i, pv) ==
    LET I == {j \in i..Len(files_to_preview) :
                 ~Skipped(rec, files_to_preview[j]) /\ files_to_preview[j] \in bad}
        last == IF I = {} THEN Len(files_to_preview) ELSE CHOOSE j \in I : \A j2 \in I : j <= j2
    IN  [f \in {files_to_preview[j] : j \in {j2 \in i..last : ~Skipped(rec, files_to_preview[j2])}} |->
            IF f \in bad THEN PreviewValue("Error", <<>>)
            ELSE LET res == get_file_destination(F, D, rls, f)
                 IN  IF res.destination # NoneDest
                       THEN PreviewValue("Destination", res.destination)
                       ELSE PreviewValue("Unorganized", <<>>)]

\* the loop of get_preview from the i-th file on (lines 196-213); bad holds the files for
\* which the existence test of get_unique_filename raises
RECURSIVE PreviewLoop(_, _, _, _, _, _, _, _)
PreviewLoop(F, D, rls, rec, files_to_preview, bad, i, pv) ==
    IF i > Len(files_to_preview) THEN pv
    ELSE LET file_path == files_to_preview[i]
             res == get_file_destination(F, D, rls, file_path)
             next == IF Skipped(rec, file_path) THEN pv
                     ELSE IF file_path \in bad
                       THEN PreviewSet(pv, file_path, PreviewValue("Error", <<>>))
                     ELSE IF res.destination # NoneDest
                       THEN PreviewSet(pv, file_path, PreviewValue("Destination", res.destination))
                     ELSE PreviewSet(pv, file_path, PreviewValue("Unorganized", <<>>))
         IN  PreviewLoop(F, D, rls, rec, files_to_preview, bad, i + 1, next)

\* the files for which get_preview tests the existence of a destination
PreviewFaultable(rls, rec, S) ==
    {f \in S : /\ ~Skipped(rec, f)
               /\ \E j \in 1..Len(rls) : InList(Lower(Suffix(Name(f))), rls[j].extensions)}

---------------------------------------------------------------------------
(* The state machine *)

\* the orders in which rglob('*') can enumerate the files: it lists a directory's entries
\* (in an order the operating system chooses) before it descends into its subdirectories
Orders(S) ==
    {f \in [1..Cardinality(S) -> S] :
        /\ \A i \in DOMAIN f : \A j \in DOMAIN f : f[i] = f[j] => i = j
        /\ \A i \in DOMAIN f : \A j \in DOMAIN f :
              i < j => Parent(f[j]) \notin ProperPrefixes(Parent(f[i]))
        /\ \A i \in DOMAIN f : \A j \in DOMAIN f : \A k \in DOMAIN f :
              (i < j /\ j < k /\ Parent(f[i]) = Parent(f[k])) => Parent(f[j]) = Parent(f[i])}

CallEntry(op) ==
    [op |-> op, files |-> files, dirs |-> dirs, undo_actions |-> undo_actions,
     nops |-> Len(ops), ntrace |-> Len(trace)]

\* Organizer.__init__ on a tree of the universe
Init ==
    /\ \E T \in Trees : \E rootExists \in BOOLEAN :
          /\ rootExists \/ T = {}
          /\ files = [p \in T |-> p]
          /\ dirs = IF rootExists THEN {Root} \cup UNION {ProperPrefixes(p) : p \in T} ELSE {}
    /\ rules \in RuleSets
    /\ recursive \in BOOLEAN
    /\ dry_run \in BOOLEAN
    /\ undo_actions = <<>>
    /\ pc = "idle"
    /\ files_to_process = <<>>
    /\ total_files = 0
    /\ processed_files_count = 0
    /\ stats = <<>>
    /\ undo_pos = 0
    /\ trace = <<>>
    /\ ops = <<>>
    /\ calls = <<>>
    /\ resolved = [file_path |-> <<>>, rule_name |-> <<>>, destination |-> <<>>]
    /\ unique = [destination |-> <<>>, filename |-> <<>>, result |-> <<>>]
    /\ preview = <<>>
    /\ rule_lists = <<>>
    /\ gui = NoWindow
    /\ threads = <<>>
    /\ budget = [runs |-> MaxRuns, undos |-> MaxUndos, faults |-> MaxFaults, previews |-> 0,
                 errors |-> 0, edits |-> 0]

\* organize_files when validate() fails
OrganizeInvalid ==
    /\ pc = "idle"
    /\ budget.runs > 0
    /\ ~validate(dirs, rules)
    /\ trace' = Append(trace, LogEntry("ValidationFailed", <<>>))
    /\ calls' = Append(calls, CallEntry("organize"))
    /\ budget' = [budget EXCEPT !.runs = @ - 1]
    /\ UNCHANGED app
    /\ UNCHANGED <<files, dirs, rules, recursive, dry_run, undo_actions, pc, files_to_process,
                   total_files, processed_files_count, stats, undo_pos, ops, resolved, unique,
                   preview>>

\* organize_files keeping the counters of the call before instead of building fresh ones
OrganizeStart_KeepStats ==
    /\ pc = "idle"
    /\ budget.runs > 0
    /\ validate(dirs, rules)
    /\ stats' = IF stats = <<>>
                  THEN [c \in {rules[i].name : i \in 1..Len(rules)} \cup {Unorganized} |-> 0]
                  ELSE stats
    /\ files_to_process' \in Orders(DOMAIN files)
    /\ total_files' = Cardinality(DOMAIN files)
    /\ processed_files_count' = 0
    /\ pc' = "run"
    /\ calls' = Append(calls, CallEntry("organize"))
    /\ budget' = [budget EXCEPT !.runs = @ - 1]
    /\ UNCHANGED app
    /\ UNCHANGED <<files, dirs, rules, recursive, dry_run, undo_actions, undo_pos, trace, ops,
                   resolved, unique, preview>>

\* organize_files up to the loop: validation, fresh stats, enumeration of the files
OrganizeStart ==
    /\ pc = "idle"
    /\ budget.runs > 0
    /\ validate(dirs, rules)
    /\ stats' = [c \in {rules[i].name : i \in 1..Len(rules)} \cup {Unorganized} |-> 0]
    /\ files_to_process' \in Orders(DOMAIN files)
    /\ total_files' = Cardinality(DOMAIN files)
    /\ processed_files_count' = 0
    /\ pc' = "run"
    /\ calls' = Append(calls, CallEntry("organize"))
    /\ budget' = [budget EXCEPT !.runs = @ - 1]
    /\ UNCHANGED app
    /\ UNCHANGED <<files, dirs, rules, recursive, dry_run, undo_actions, undo_pos, trace, ops,
                   resolved, unique, preview>>

\* the loop of organize_files leaving the method at the first file whose handling failed
ProcessFile_StopOnError ==
    /\ pc = "run"
    /\ processed_files_count < total_files
    /\ LET file_path == files_to_process[processed_files_count + 1]
       IN  \E res \in {IF Skipped(recursive, file_path)
                           THEN [rule_name |-> Unorganized, destination |-> NoneDest]
                           ELSE get_file_destination(files, dirs, rules, file_path)} :
           \E fault \in ApplicableFaults(files, recursive, dry_run, file_path, res) :
             /\ fault = "none" \/ budget.faults > 0
             /\ budget' = IF fault = "none" THEN budget ELSE [budget EXCEPT !.faults = @ - 1]
             /\ resolved' = IF Skipped(recursive, file_path) THEN resolved
                             ELSE [file_path |-> file_path, rule_name |-> res.rule_name,
                                   destination |-> res.destination]
             /\ \E r \in {ProcessBody(files, dirs, undo_actions, stats, recursive, dry_run,
                                        file_path, res, fault)} :
                    /\ files' = r.files
                    /\ dirs' = r.dirs
                    /\ undo_actions' = r.undo_actions
                    /\ stats' = r.stats
                    /\ ops' = ops \o r.ops
                    /\ trace' = trace \o r.logs
                    /\ pc' = IF \E i \in 1..Len(r.ops) : ~r.ops[i].ok THEN "idle" ELSE pc
    /\ processed_files_count' = processed_files_count + 1
    /\ UNCHANGED app
    /\ UNCHANGED <<rules, recursive, dry_run, files_to_process, total_files, undo_pos, calls,
                   unique, preview>>

\* one iteration of the loop of organize_files, its finally clause included
ProcessFile ==
    /\ pc = "run"
    /\ processed_files_count < total_files
    /\ LET file_path == files_to_process[processed_files_count + 1]
       IN  \E res \in {IF Skipped(recursive, file_path)
                           THEN [rule_name |-> Unorganized, destination |-> NoneDest]
                           ELSE get_file_destination(files, dirs, rules, file_path)} :
           \E fault \in ApplicableFaults(files, recursive, dry_run, file_path, res) :
             /\ fault = "none" \/ budget.faults > 0
             /\ budget' = IF fault = "none" THEN budget ELSE [budget EXCEPT !.faults = @ - 1]
             /\ resolved' = IF Skipped(recursive, file_path) THEN resolved
                             ELSE [file_path |-> file_path, rule_name |-> res.rule_name,
                                   destination |-> res.destination]
             /\ \E r \in {ProcessBody(files, dirs, undo_actions, stats, recursive, dry_run,
                                        file_path, res, fault)} :
                    /\ files' = r.files
                    /\ dirs' = r.dirs
                    /\ undo_actions' = r.undo_actions
                    /\ stats' = r.stats
                    /\ ops' = ops \o r.ops
                    /\ trace' = trace \o r.logs \o
                                (IF total_files > 0
                                   THEN <<ProgressEntry(Progress(processed_files_count + 1,
                                                                 total_files))>>
                                   ELSE <<>>)
    /\ processed_files_count' = processed_files_count + 1
    /\ UNCHANGED app
    /\ UNCHANGED <<rules, recursive, dry_run, pc, files_to_process, total_files, undo_pos, calls,
                   unique, preview>>

\* organize_files after the loop, handing over the stats before it logs the terminal line
OrganizeFinish_StatsFirst ==
    /\ pc = "run"
    /\ processed_files_count = total_files
    /\ trace' = trace \o <<StatsEntry(stats),
                           LogEntry(IF dry_run THEN "DryComplete" ELSE "Complete", <<>>)>>
    /\ pc' = "idle"
    /\ UNCHANGED app
    /\ UNCHANGED <<files, dirs, rules, recursive, dry_run, undo_actions, files_to_process,
                   total_files, processed_files_count, stats, undo_pos, ops, calls, resolved,
                   unique, preview, budget>>

\* organize_files after the loop: the terminal log line and the stats callback
OrganizeFinish ==
    /\ pc = "run"
    /\ processed_files_count = total_files
    /\ trace' = trace \o <<LogEntry(IF dry_run THEN "DryComplete" ELSE "Complete", <<>>),
                           StatsEntry(stats)>>
    /\ pc' = "idle"
    /\ UNCHANGED app
    /\ UNCHANGED <<files, dirs, rules, recursive, dry_run, undo_actions, files_to_process,
                   total_files, processed_files_count, stats, undo_pos, ops, calls, resolved, unique,
                   preview, budget>>

\* undo with nothing to undo
UndoEmpty ==
    /\ pc = "idle"
    /\ budget.undos > 0
    /\ undo_actions = <<>>
    /\ calls' = Append(calls, CallEntry("undo"))
    /\ budget' = [budget EXCEPT !.undos = @ - 1]
    /\ UNCHANGED app
    /\ UNCHANGED <<files, dirs, rules, recursive, dry_run, undo_actions, pc, files_to_process,
                   total_files, processed_files_count, stats, undo_pos, trace, ops, resolved, unique,
                   preview>>

\* undo up to its loop
UndoStart ==
    /\ pc = "idle"
    /\ budget.undos > 0
    /\ undo_actions # <<>>
    /\ pc' = "undo"
    /\ undo_pos' = 0
    /\ calls' = Append(calls, CallEntry("undo"))
    /\ budget' = [budget EXCEPT !.undos = @ - 1]
    /\ UNCHANGED app
    /\ UNCHANGED <<files, dirs, rules, recursive, dry_run, undo_actions, files_to_process,
                   total_files, processed_files_count, stats, trace, ops, resolved, unique,
                   preview>>

\* one iteration of the loop of undo, over reversed(undo_actions)
UndoStep ==
    /\ pc = "undo"
    /\ undo_pos < Len(undo_actions)
    /\ \E fault \in {"none"} \cup UndoFaults :
          /\ fault = "none" \/ budget.faults > 0
          /\ budget' = IF fault = "none" THEN budget ELSE [budget EXCEPT !.faults = @ - 1]
          /\ \E r \in {UndoBody(files, dirs, ReversedAt(undo_actions, undo_pos + 1)[1],
                                  ReversedAt(undo_actions, undo_pos + 1)[2], fault)} :
                 /\ files' = r.files
                 /\ dirs' = r.dirs
                 /\ ops' = ops \o r.ops
                 /\ undo_pos' = NextUndoPos(undo_pos, Len(undo_actions),
                                            ~r.ops[Len(r.ops)].ok)
    /\ UNCHANGED app
    /\ UNCHANGED <<rules, recursive, dry_run, undo_actions, pc, files_to_process, total_files,
                   processed_files_count, stats, trace, calls, resolved, unique,
                   preview>>

\* undo keeping its log when a reversal failed
UndoFinish_KeepOnFailure ==
    /\ pc = "undo"
    /\ undo_pos >= Len(undo_actions)
    /\ undo_actions' = IF \E i \in (calls[Len(calls)].nops + 1)..Len(ops) : ~ops[i].ok
                         THEN undo_actions ELSE <<>>
    /\ pc' = "idle"
    /\ UNCHANGED app
    /\ UNCHANGED <<files, dirs, rules, recursive, dry_run, files_to_process, total_files,
                   processed_files_count, stats, undo_pos, trace, ops, calls, resolved, unique,
                   preview, budget>>

\* undo after its loop: undo_actions.clear()
UndoFinish ==
    /\ pc = "undo"
    /\ undo_pos >= Len(undo_actions)
    /\ undo_actions' = <<>>
    /\ pc' = "idle"
    /\ UNCHANGED app
    /\ UNCHANGED <<files, dirs, rules, recursive, dry_run, files_to_process, total_files,
                   processed_files_count, stats, undo_pos, trace, ops, calls, resolved, unique,
                   preview, budget>>

Next ==
    \/ OrganizeInvalid
    \/ OrganizeStart
    \/ ProcessFile
    \/ OrganizeFinish
    \/ UndoEmpty
    \/ UndoStart
    \/ UndoStep
    \/ UndoFinish

Spec == Init /\ [][Next]_vars

---------------------------------------------------------------------------
(* Calls of organize_files alone, on an engine whose undo is never called *)

RunInit ==
    /\ \E T \in Trees : \E rootExists \in BOOLEAN :
          /\ rootExists \/ T = {}
          /\ files = [p \in T |-> p]
          /\ dirs = IF rootExists THEN {Root} \cup UNION {ProperPrefixes(p) : p \in T} ELSE {}
    /\ rules \in RuleSets
    /\ recursive \in BOOLEAN
    /\ dry_run \in BOOLEAN
    /\ undo_actions = <<>>
    /\ pc = "idle"
    /\ files_to_process = <<>>
    /\ total_files = 0
    /\ processed_files_count = 0
    /\ stats = <<>>
    /\ undo_pos = 0
    /\ trace = <<>>
    /\ ops = <<>>
    /\ calls = <<>>
    /\ resolved = [file_path |-> <<>>, rule_name |-> <<>>, destination |-> <<>>]
    /\ unique = [destination |-> <<>>, filename |-> <<>>, result |-> <<>>]
    /\ preview = <<>>
    /\ rule_lists = <<>>
    /\ gui = NoWindow
    /\ threads = <<>>
    /\ budget = [runs |-> MaxRuns, undos |-> 0, faults |-> MaxFaults, previews |-> 0,
                 errors |-> 0, edits |-> 0]

NextRun ==
    \/ OrganizeInvalid
    \/ OrganizeStart
    \/ ProcessFile
    \/ OrganizeFinish

SpecRun == RunInit /\ [][NextRun]_vars

\* organize_files runs on one thread, in a loop over a list that is fixed when the loop
\* starts, and every handler of the loop falls through to the next file: a started call
\* keeps taking its steps
SpecRunFair == RunInit /\ [][NextRun]_vars /\ WF_vars(ProcessFile) /\ WF_vars(OrganizeFinish)

---------------------------------------------------------------------------
(* get_preview and organize_files on one engine, on trees where the destination of one    *)
(* file is a name another file would take                                                 *)

MaxPreviewFiles == 3
MaxPreviews == 1
MaxPreviewErrors == 1

PreviewUniverse == {<<NameAJ>>, <<NameA1J>>, <<NameCX>>, <<NameI, NameAJ>>}
PreviewTrees == {T \in SUBSET PreviewUniverse : Cardinality(T) <= MaxPreviewFiles}

PreviewInit ==
    /\ \E T \in PreviewTrees : \E rootExists \in BOOLEAN :
          /\ rootExists \/ T = {}
          /\ files = [p \in T |-> p]
          /\ dirs = IF rootExists THEN {Root} \cup UNION {ProperPrefixes(p) : p \in T} ELSE {}
    /\ rules \in RuleSets
    /\ recursive \in BOOLEAN
    /\ dry_run \in BOOLEAN
    /\ undo_actions = <<>>
    /\ pc = "idle"
    /\ files_to_process = <<>>
    /\ total_files = 0
    /\ processed_files_count = 0
    /\ stats = <<>>
    /\ undo_pos = 0
    /\ trace = <<>>
    /\ ops = <<>>
    /\ calls = <<>>
    /\ resolved = [file_path |-> <<>>, rule_name |-> <<>>, destination |-> <<>>]
    /\ unique = [destination |-> <<>>, filename |-> <<>>, result |-> <<>>]
    /\ preview = <<>>
    /\ rule_lists = <<>>
    /\ gui = NoWindow
    /\ threads = <<>>
    /\ budget = [runs |-> MaxRuns, undos |-> 0, faults |-> 0, previews |-> MaxPreviews,
                 errors |-> MaxPreviewErrors, edits |-> 0]

\* get_preview when validate() fails
PreviewInvalid ==
    /\ pc = "idle"
    /\ budget.previews > 0
    /\ ~validate(dirs, rules)
    /\ preview' = <<>>
    /\ calls' = Append(calls, CallEntry("preview"))
    /\ budget' = [budget EXCEPT !.previews = @ - 1]
    /\ UNCHANGED app
    /\ UNCHANGED <<files, dirs, rules, recursive, dry_run, undo_actions, pc, files_to_process,
                   total_files, processed_files_count, stats, undo_pos, trace, ops, resolved,
                   unique>>

\* get_preview creating the destination directories as organize_files does
Preview_Mkdir ==
    /\ pc = "idle"
    /\ budget.previews > 0
    /\ validate(dirs, rules)
    /\ \E files_to_preview \in Orders(DOMAIN files) :
       \E bad \in SUBSET PreviewFaultable(rules, recursive, DOMAIN files) :
          /\ Cardinality(bad) <= budget.errors
          /\ preview' = PreviewLoop(files, dirs, rules, recursive, files_to_preview, bad, 1, <<>>)
          /\ dirs' = dirs \cup UNION {Prefixes(Parent(preview'[f].path)) :
                                        f \in {g \in DOMAIN preview' :
                                                  preview'[g].kind = "Destination"}}
          /\ budget' = [budget EXCEPT !.previews = @ - 1, !.errors = @ - Cardinality(bad)]
    /\ calls' = Append(calls, CallEntry("preview"))
    /\ UNCHANGED app
    /\ UNCHANGED <<files, rules, recursive, dry_run, undo_actions, pc, files_to_process,
                   total_files, processed_files_count, stats, undo_pos, trace, ops, resolved,
                   unique>>

\* get_preview after validation: the enumeration and the loop
Preview ==
    /\ pc = "idle"
    /\ budget.previews > 0
    /\ validate(dirs, rules)
    /\ \E files_to_preview \in Orders(DOMAIN files) :
       \E bad \in SUBSET PreviewFaultable(rules, recursive, DOMAIN files) :
          /\ Cardinality(bad) <= budget.errors
          /\ preview' = PreviewLoop(files, dirs, rules, recursive, files_to_preview, bad, 1, <<>>)
          /\ budget' = [budget EXCEPT !.previews = @ - 1, !.errors = @ - Cardinality(bad)]
    /\ calls' = Append(calls, CallEntry("preview"))
    /\ UNCHANGED app
    /\ UNCHANGED <<files, dirs, rules, recursive, dry_run, undo_actions, pc, files_to_process,
                   total_files, processed_files_count, stats, undo_pos, trace, ops, resolved,
                   unique>>

NextPreview ==
    \/ PreviewInvalid
    \/ Preview
    \/ OrganizeInvalid
    \/ OrganizeStart
    \/ ProcessFile
    \/ OrganizeFinish

SpecPreview == PreviewInit /\ [][NextPreview]_vars

---------------------------------------------------------------------------
(* Direct calls of _get_file_destination, on trees with name collisions and nested        *)
(* directories and on rules entered in upper case, and direct calls of                    *)
(* get_unique_filename, on names of several dots, of no dot, with a leading and with a    *)
(* trailing dot                                                                            *)

MaxResolveFiles == 3
MaxUniqueFiles == 3

NameU == <<"U">>
NameA2J == <<"a", "_", "2", ".", "j">>
NameATG == <<"a", ".", "t", ".", "g">>
NameR == <<"R">>
NameADot == <<"a", ".">>
NameDotH == <<".", "h">>
ExtUpperJ == <<".", "J">>
ExtG == <<".", "g">>

RuleU == [name |-> NameU, extensions |-> <<ExtUpperJ, ExtG>>]
ResolveRuleSets == {<<RuleI, RuleD>>, <<RuleU>>, <<RuleU, RuleI>>, <<RuleD, RuleU>>}

ResolveUniverse ==
    {<<NameAJ>>, <<NameBJ>>, <<NameATG>>, <<NameR>>, <<NameS, NameAJ>>,
     <<NameI, NameAJ>>, <<NameI, NameA1J>>, <<NameI, NameS, NameAJ>>}
ResolveTrees == {T \in SUBSET ResolveUniverse : Cardinality(T) <= MaxResolveFiles}

UniqueNames == {NameAJ, NameA1J, NameA2J, NameATG, NameR, NameADot, NameDotH}
UniqueTrees ==
    {T \in SUBSET {<<NameI, n>> : n \in UniqueNames} : Cardinality(T) <= MaxUniqueFiles}

ResolveInit ==
    /\ \E T \in ResolveTrees :
          /\ files = [p \in T |-> p]
          /\ dirs = {Root} \cup UNION {ProperPrefixes(p) : p \in T}
    /\ rules \in ResolveRuleSets
    /\ recursive = TRUE
    /\ dry_run = FALSE
    /\ undo_actions = <<>>
    /\ pc = "idle"
    /\ files_to_process = <<>>
    /\ total_files = 0
    /\ processed_files_count = 0
    /\ stats = <<>>
    /\ undo_pos = 0
    /\ trace = <<>>
    /\ ops = <<>>
    /\ calls = <<>>
    /\ resolved = [file_path |-> <<>>, rule_name |-> <<>>, destination |-> <<>>]
    /\ unique = [destination |-> <<>>, filename |-> <<>>, result |-> <<>>]
    /\ preview = <<>>
    /\ rule_lists = <<>>
    /\ gui = NoWindow
    /\ threads = <<>>
    /\ budget = [runs |-> 0, undos |-> 0, faults |-> 0, previews |-> 0, errors |-> 0, edits |-> 0]

\* a call of _get_file_destination for a file of the tree
ResolveCall ==
    /\ \E file_path \in DOMAIN files :
          \E res \in {get_file_destination(files, dirs, rules, file_path)} :
              resolved' = [file_path |-> file_path, rule_name |-> res.rule_name,
                           destination |-> res.destination]
    /\ UNCHANGED app
    /\ UNCHANGED <<files, dirs, rules, recursive, dry_run, undo_actions, pc, files_to_process,
                   total_files, processed_files_count, stats, undo_pos, trace, ops, calls,
                   unique, preview, budget>>

NextResolve == ResolveCall

SpecResolve == ResolveInit /\ [][NextResolve]_vars

UniqueInit ==
    /\ \E T \in UniqueTrees :
          /\ files = [p \in T |-> p]
          /\ dirs = {Root, <<NameI>>}
    /\ rules = <<RuleI, RuleD>>
    /\ recursive = TRUE
    /\ dry_run = FALSE
    /\ undo_actions = <<>>
    /\ pc = "idle"
    /\ files_to_process = <<>>
    /\ total_files = 0
    /\ processed_files_count = 0
    /\ stats = <<>>
    /\ undo_pos = 0
    /\ trace = <<>>
    /\ ops = <<>>
    /\ calls = <<>>
    /\ resolved = [file_path |-> <<>>, rule_name |-> <<>>, destination |-> <<>>]
    /\ unique = [destination |-> <<>>, filename |-> <<>>, result |-> <<>>]
    /\ preview = <<>>
    /\ rule_lists = <<>>
    /\ gui = NoWindow
    /\ threads = <<>>
    /\ budget = [runs |-> 0, undos |-> 0, faults |-> 0, previews |-> 0, errors |-> 0, edits |-> 0]

\* a call of get_unique_filename for a directory of the tree and a file name
UniqueCall ==
    /\ \E destination \in dirs : \E filename \in UniqueNames :
          unique' = [destination |-> destination, filename |-> filename,
                     result |-> get_unique_filename(files, dirs, destination, filename)]
    /\ UNCHANGED app
    /\ UNCHANGED <<files, dirs, rules, recursive, dry_run, undo_actions, pc, files_to_process,
                   total_files, processed_files_count, stats, undo_pos, trace, ops, calls,
                   resolved, preview, budget>>

NextUnique == UniqueCall

SpecUnique == UniqueInit /\ [][NextUnique]_vars

---------------------------------------------------------------------------
(* The progress reports of a run over total_files files: the finally clause of the loop   *)
(* of organize_files, for runs longer than the trees above allow                          *)

MaxTotal == 50

ProgressInit ==
    /\ total_files \in 1..MaxTotal
    /\ files = <<>>
    /\ dirs = {Root}
    /\ rules = <<RuleI, RuleD>>
    /\ recursive = FALSE
    /\ dry_run = FALSE
    /\ undo_actions = <<>>
    /\ pc = "run"
    /\ files_to_process = <<>>
    /\ processed_files_count = 0
    /\ stats = <<>>
    /\ undo_pos = 0
    /\ trace = <<>>
    /\ ops = <<>>
    /\ calls = <<>>
    /\ resolved = [file_path |-> <<>>, rule_name |-> <<>>, destination |-> <<>>]
    /\ unique = [destination |-> <<>>, filename |-> <<>>, result |-> <<>>]
    /\ preview = <<>>
    /\ rule_lists = <<>>
    /\ gui = NoWindow
    /\ threads = <<>>
    /\ budget = [runs |-> 0, undos |-> 0, faults |-> 0, previews |-> 0, errors |-> 0, edits |-> 0]

\* the finally clause of one iteration (lines 152-156)
ProgressStep ==
    /\ pc = "run"
    /\ processed_files_count < total_files
    /\ processed_files_count' = processed_files_count + 1
    /\ trace' = trace \o (IF total_files > 0
                             THEN <<ProgressEntry(Progress(processed_files_count + 1,
                                                           total_files))>>
                             ELSE <<>>)
    /\ UNCHANGED app
    /\ UNCHANGED <<files, dirs, rules, recursive, dry_run, undo_actions, pc, files_to_process,
                   total_files, stats, undo_pos, ops, calls, resolved, unique, preview, budget>>

NextProgress == ProgressStep

SpecProgress == ProgressInit /\ [][NextProgress]_vars

---------------------------------------------------------------------------
(* Calls of organize_files one after the other on one engine, nothing failing *)

MaxReruns == 2

RerunInit ==
    /\ \E T \in Trees : \E rootExists \in BOOLEAN :
          /\ rootExists \/ T = {}
          /\ files = [p \in T |-> p]
          /\ dirs = IF rootExists THEN {Root} \cup UNION {ProperPrefixes(p) : p \in T} ELSE {}
    /\ rules \in RuleSets
    /\ recursive \in BOOLEAN
    /\ dry_run \in BOOLEAN
    /\ undo_actions = <<>>
    /\ pc = "idle"
    /\ files_to_process = <<>>
    /\ total_files = 0
    /\ processed_files_count = 0
    /\ stats = <<>>
    /\ undo_pos = 0
    /\ trace = <<>>
    /\ ops = <<>>
    /\ calls = <<>>
    /\ resolved = [file_path |-> <<>>, rule_name |-> <<>>, destination |-> <<>>]
    /\ unique = [destination |-> <<>>, filename |-> <<>>, result |-> <<>>]
    /\ preview = <<>>
    /\ rule_lists = <<>>
    /\ gui = NoWindow
    /\ threads = <<>>
    /\ budget = [runs |-> MaxReruns, undos |-> 0, faults |-> 0, previews |-> 0, errors |-> 0, edits |-> 0]

SpecRerun == RerunInit /\ [][NextRun]_vars

---------------------------------------------------------------------------
(* The application: FileOrganizerGUI (src/src/app/gui/main_window.py), the               *)
(* FileOrganizerThreads it starts (src/src/app/threads/organizer_thread.py) and its      *)
(* schedule (src/src/app/threads/schedule_thread.py). Each FileOrganizerThread owns an   *)
(* Organizer of its own; all of them work on the selected directory. The handlers of the *)
(* window run on the GUI thread, one at a time; organize_files runs on the thread that   *)
(* was started for it, and a scheduled job on the schedule thread. A thread is modelled  *)
(* as giving way to the others between two iterations of a loop, not inside one. The     *)
(* signals of a thread end in slots that only display, and are left out.                 *)

MaxThreads == 2
MaxAppUndos == 1
MaxRuleLists == 2
MaxRuleEdits == 1

ExtX == <<".", "x">>
RuleX == [name |-> <<"X">>, extensions |-> <<ExtX>>]
AppRuleSets == {<<RuleI>>}
AddableRules == {RuleX}
ImportableRules == {<<RuleD>>}
AppTrees == SUBSET {<<NameAJ>>, <<NameCX>>}

\* the variables of the single engine of the specifications above
engine == <<rules, recursive, dry_run, undo_actions, pc, files_to_process, total_files,
            processed_files_count, stats, undo_pos, trace, ops, resolved, unique, preview>>

\* what a call of start_organizing found: whether every earlier run had returned
StartEntry ==
    [op |-> "start_organizing",
     quiet |-> \A t \in 1..Len(threads) : threads[t].pc = "finished"]

\* what a click on Undo Last Organization found
AppCallEntry(op) ==
    [op |-> op, organize_thread |-> gui.organize_thread,
     threads |-> [t \in 1..Len(threads) |->
                     [pc |-> threads[t].pc, undo_actions |-> threads[t].undo_actions]]]

\* FileOrganizerThread.__init__: Organizer(directory, rules, recursive, dry_run), the rules
\* being the list object it is given, not a copy of it
NewThread(rec, dry, rls) ==
    [rules |-> rls, recursive |-> rec, dry_run |-> dry, undo_actions |-> <<>>,
     pc |-> "started", files_to_process |-> <<>>, processed_files_count |-> 0,
     stats |-> <<>>]

\* FileOrganizerGUI.__init__ with a directory selected
AppInit ==
    /\ \E T \in AppTrees :
          /\ files = [p \in T |-> p]
          /\ dirs = {Root}
    /\ \E rls \in AppRuleSets : rule_lists = <<rls>>
    /\ \E rec \in BOOLEAN :
          gui = [rules |-> 1, organize_thread |-> 0, recursive |-> rec, scheduled |-> FALSE,
                 undoing |-> 0, undo_pos |-> 0]
    /\ threads = <<>>
    /\ rules = <<>>
    /\ recursive = FALSE
    /\ dry_run = FALSE
    /\ undo_actions = <<>>
    /\ pc = "idle"
    /\ files_to_process = <<>>
    /\ total_files = 0
    /\ processed_files_count = 0
    /\ stats = <<>>
    /\ undo_pos = 0
    /\ trace = <<>>
    /\ ops = <<>>
    /\ calls = <<>>
    /\ resolved = [file_path |-> <<>>, rule_name |-> <<>>, destination |-> <<>>]
    /\ unique = [destination |-> <<>>, filename |-> <<>>, result |-> <<>>]
    /\ preview = <<>>
    /\ budget = [runs |-> MaxThreads, undos |-> MaxAppUndos, faults |-> 0, previews |-> 0,
                 errors |-> 0, edits |-> MaxRuleEdits]

\* start_organizing: a new thread with a new Organizer replaces self.organize_thread and is
\* started, whatever the thread it replaces is doing; the Dry Run check box is read as it
\* stands at the call
start_organizing ==
    /\ budget.runs > 0
    /\ \E dry \in BOOLEAN :
          threads' = Append(threads, NewThread(gui.recursive, dry, gui.rules))
    /\ gui' = [gui EXCEPT !.organize_thread = Len(threads) + 1]
    /\ calls' = Append(calls, StartEntry)
    /\ budget' = [budget EXCEPT !.runs = @ - 1]
    /\ UNCHANGED <<files, dirs, rule_lists>>
    /\ UNCHANGED engine

\* the Organize Files button
OrganizeClicked == gui.undoing = 0 /\ start_organizing

\* setSchedule: the job is registered and a ScheduleThread started (explored for a schedule
\* set before the first run)
setSchedule ==
    /\ gui.undoing = 0
    /\ ~gui.scheduled
    /\ threads = <<>>
    /\ gui' = [gui EXCEPT !.scheduled = TRUE]
    /\ UNCHANGED <<files, dirs, rule_lists, threads, calls, budget>>
    /\ UNCHANGED engine

\* ScheduleThread.run finds the job due: scheduled_organization, on the schedule thread
scheduled_organization == gui.scheduled /\ start_organizing

\* addRule: self.rules.append(...), on the list object itself
addRule ==
    /\ gui.undoing = 0
    /\ budget.edits > 0
    /\ budget' = [budget EXCEPT !.edits = @ - 1]
    /\ \E r \in AddableRules :
          /\ ~InList(r, rule_lists[gui.rules])
          /\ rule_lists' = [rule_lists EXCEPT ![gui.rules] = Append(@, r)]
    /\ UNCHANGED <<files, dirs, gui, threads, calls>>
    /\ UNCHANGED engine

\* removeRule: self.rules becomes a new list without the rules of the selected name
removeRule ==
    /\ gui.undoing = 0
    /\ Len(rule_lists) < MaxRuleLists
    /\ budget.edits > 0
    /\ budget' = [budget EXCEPT !.edits = @ - 1]
    /\ \E i \in 1..Len(rule_lists[gui.rules]) :
          LET Kept(r) == r.name # rule_lists[gui.rules][i].name
          IN  rule_lists' = Append(rule_lists, SelectSeq(rule_lists[gui.rules], Kept))
    /\ gui' = [gui EXCEPT !.rules = Len(rule_lists) + 1]
    /\ UNCHANGED <<files, dirs, threads, calls>>
    /\ UNCHANGED engine

\* importRules: self.rules becomes a new list read from a file
importRules ==
    /\ gui.undoing = 0
    /\ Len(rule_lists) < MaxRuleLists
    /\ budget.edits > 0
    /\ budget' = [budget EXCEPT !.edits = @ - 1]
    /\ \E rls \in ImportableRules : rule_lists' = Append(rule_lists, rls)
    /\ gui' = [gui EXCEPT !.rules = Len(rule_lists) + 1]
    /\ UNCHANGED <<files, dirs, threads, calls>>
    /\ UNCHANGED engine

\* the body of the loop of organize_files on a rule list that may have grown since the
\* stats were built: stats[rule_name] += 1 (lines 127 and 142) then raises KeyError, after
\* the move and its log line, and the outer handler (lines 147-151) takes over
SharedProcessBody(F, D, U, S, rec, dry, file_path, res) ==
    IF res.rule_name \in DOMAIN S
      THEN ProcessBody(F, D, U, S, rec, dry, file_path, res, "none")
      ELSE LET r == ProcessBody(F, D, U, (res.rule_name :> 0) @@ S, rec, dry, file_path, res,
                                "none")
           IN  IF r.logs[1].kind \in {"Moved", "WouldMove"}
                 THEN [r EXCEPT !.stats = [S EXCEPT ![Unorganized] = @ + 1],
                                !.logs = Append(@, LogEntry("Unexpected", file_path))]
                 ELSE [r EXCEPT !.stats = [c \in DOMAIN S |-> r.stats[c]]]

\* FileOrganizerThread.run: organize_files up to its loop, on the thread started for it
run_begin(t) ==
    /\ threads[t].pc = "started"
    /\ IF ~validate(dirs, rule_lists[threads[t].rules])
         THEN threads' = [threads EXCEPT ![t].pc = "finished"]
         ELSE \E order \in Orders(DOMAIN files) :
                 threads' =
                     [threads EXCEPT
                        ![t].pc = "run",
                        ![t].stats =
                            [c \in {rule_lists[threads[t].rules][i].name :
                                       i \in 1..Len(rule_lists[threads[t].rules])}
                                   \cup {Unorganized} |-> 0],
                        ![t].files_to_process = order,
                        ![t].processed_files_count = 0]
    /\ UNCHANGED <<files, dirs, rule_lists, gui, calls, budget>>
    /\ UNCHANGED engine

\* one iteration of the loop of organize_files of thread t
run_iteration(t) ==
    /\ threads[t].pc = "run"
    /\ threads[t].processed_files_count < Len(threads[t].files_to_process)
    /\ LET th == threads[t]
           file_path == th.files_to_process[th.processed_files_count + 1]
       IN  \E res \in {IF Skipped(th.recursive, file_path)
                           THEN [rule_name |-> Unorganized, destination |-> NoneDest]
                           ELSE get_file_destination(files, dirs, rule_lists[th.rules],
                                                     file_path)} :
           \E r \in {SharedProcessBody(files, dirs, th.undo_actions, th.stats, th.recursive,
                                        th.dry_run, file_path, res)} :
              /\ files' = r.files
              /\ dirs' = r.dirs
              /\ threads' = [threads EXCEPT ![t].undo_actions = r.undo_actions,
                                            ![t].stats = r.stats,
                                            ![t].processed_files_count = @ + 1]
    /\ UNCHANGED <<rule_lists, gui, calls, budget>>
    /\ UNCHANGED engine

\* organize_files of thread t after its loop; run returns and its locals are gone
run_end(t) ==
    /\ threads[t].pc = "run"
    /\ threads[t].processed_files_count = Len(threads[t].files_to_process)
    /\ threads' = [threads EXCEPT ![t].pc = "finished",
                                  ![t].files_to_process = <<>>,
                                  ![t].processed_files_count = 0,
                                  ![t].stats = <<>>]
    /\ UNCHANGED <<files, dirs, rule_lists, gui, calls, budget>>
    /\ UNCHANGED engine

\* undo_organization: self.organize_thread.undo() on the GUI thread, up to the loop of
\* Organizer.undo, whose reversed() starts at the last entry the log holds now
undo_organization ==
    /\ gui.undoing = 0
    /\ budget.undos > 0
    /\ budget' = [budget EXCEPT !.undos = @ - 1]
    /\ calls' = Append(calls, AppCallEntry("undo_organization"))
    /\ IF gui.organize_thread = 0 \/ threads[gui.organize_thread].undo_actions = <<>>
         THEN UNCHANGED gui
         ELSE gui' = [gui EXCEPT !.undoing = gui.organize_thread,
                                 !.undo_pos = Len(threads[gui.organize_thread].undo_actions)]
    /\ UNCHANGED <<files, dirs, rule_lists, threads>>
    /\ UNCHANGED engine

\* one iteration of the loop of Organizer.undo called by undo_organization
undo_iteration ==
    /\ gui.undoing # 0
    /\ gui.undo_pos > 0
    /\ \E r \in {UndoBody(files, dirs, threads[gui.undoing].undo_actions[gui.undo_pos][1],
                            threads[gui.undoing].undo_actions[gui.undo_pos][2], "none")} :
          /\ files' = r.files
          /\ dirs' = r.dirs
    /\ gui' = [gui EXCEPT !.undo_pos = @ - 1]
    /\ UNCHANGED <<rule_lists, threads, calls, budget>>
    /\ UNCHANGED engine

\* Organizer.undo after its loop: undo_actions.clear(), and undo_organization returns
undo_clear ==
    /\ gui.undoing # 0
    /\ gui.undo_pos = 0
    /\ threads' = [threads EXCEPT ![gui.undoing].undo_actions = <<>>]
    /\ gui' = [gui EXCEPT !.undoing = 0]
    /\ UNCHANGED <<files, dirs, rule_lists, calls, budget>>
    /\ UNCHANGED engine

NextApp ==
    \/ OrganizeClicked
    \/ setSchedule
    \/ scheduled_organization
    \/ addRule
    \/ removeRule
    \/ importRules
    \/ undo_organization
    \/ undo_iteration
    \/ undo_clear
    \/ \E t \in 1..Len(threads) : run_begin(t)
    \/ \E t \in 1..Len(threads) : run_iteration(t)
    \/ \E t \in 1..Len(threads) : run_end(t)

SpecApp == AppInit /\ [][NextApp]_vars

---------------------------------------------------------------------------
(* Vocabulary of the properties *)

LastCall == calls[Len(calls)]

\* the state call i ended in (the current state while it is the last call)
CallEnd(i) ==
    IF i < Len(calls) THEN calls[i + 1]
    ELSE [op |-> "now", files |-> files, dirs |-> dirs, undo_actions |-> undo_actions,
          nops |-> Len(ops), ntrace |-> Len(trace)]
CallReturned(i) == i < Len(calls) \/ pc = "idle"

\* what call i did to the filesystem and what it reported
CallOps(i) == SubSeq(ops, calls[i].nops + 1, CallEnd(i).nops)
CallTrace(i) == SubSeq(trace, calls[i].ntrace + 1, CallEnd(i).ntrace)

IsMkdir(o) == o.call = "mkdir"
IsMove(o) == o.call = "move"
IsGoodMove(o) == o.call = "move" /\ o.ok
IsFailure(o) == ~o.ok

MinOf(S) == CHOOSE x \in S : \A y \in S : x <= y
MatchingRules(file_path) ==
    {i \in 1..Len(rules) : InList(Lower(Suffix(Name(file_path))), rules[i].extensions)}

\* the files of the current run, by what becomes of them
RunFiles == {files_to_process[i] : i \in 1..Len(files_to_process)}
Eligible == {f \in RunFiles : recursive \/ Len(f) = 1}
Matching == {f \in Eligible : MatchingRules(f) # {}}
Failed == {f \in Matching : \E i \in (LastCall.nops + 1)..Len(ops) : ops[i].src = f /\ ~ops[i].ok}
LoopDone == pc = "run" /\ processed_files_count = total_files

\* filename with the disambiguator _N put before its last dot, or at its end when it has none
WithDisambiguator(filename, N) ==
    LET i == LastDot(filename)
    IN  IF i = 0 THEN filename \o <<"_">> \o Dec(N)
        ELSE SubSeq(filename, 1, i - 1) \o <<"_">> \o Dec(N) \o SubSeq(filename, i, Len(filename))

\* base_N.ext for a name base.ext, base_N for a name with nothing after its last dot or with
\* no dot
NumberedName(filename, N) ==
    LET i == LastDot(filename)
    IN  IF i = 0 THEN filename \o <<"_">> \o Dec(N)
        ELSE IF i = Len(filename) THEN SubSeq(filename, 1, i - 1) \o <<"_">> \o Dec(N)
        ELSE SubSeq(filename, 1, i - 1) \o <<"_">> \o Dec(N) \o SubSeq(filename, i, Len(filename))

IsProgress(e) == e.cb = "progress"
IsLog(e) == e.cb = "log"
IsStats(e) == e.cb = "stats"

\* the file a per-file log line is about
LogFile(e) == IF e.kind \in {"Moved", "WouldMove"} THEN e.arg[1] ELSE e.arg

RECURSIVE SumOver(_, _)
SumOver(f, S) ==
    IF S = {} THEN 0 ELSE LET x == CHOOSE y \in S : TRUE IN f[x] + SumOver(f, S \ {x})
SumStats(S) == SumOver(S, DOMAIN S)

---------------------------------------------------------------------------
(* Properties *)

\* C1: a real run on an engine with an empty undo log, followed by undo() on the same
\* engine, nothing having failed in either, puts every file back where it was before the run
\* (same paths, same contents) and leaves the undo log empty.
C1_Reversibility ==
    (/\ pc = "idle"
     /\ ~dry_run
     /\ Len(calls) >= 2
     /\ calls[Len(calls)].op = "undo"
     /\ calls[Len(calls) - 1].op = "organize"
     /\ calls[Len(calls) - 1].undo_actions = <<>>
     /\ \A i \in (calls[Len(calls) - 1].nops + 1)..Len(ops) : ops[i].ok)
    => (files = calls[Len(calls) - 1].files /\ undo_actions = <<>>)

\* C2: outside undo, the undo log is exactly the sequence of the moves that succeeded since
\* the log was last emptied, in the order they were made, each as <<destination, original
\* path>>; a failed move and a dry run add nothing.
C2_UndoLogIsSucceededMoves ==
    pc # "undo" =>
        LET I == {i \in 1..Len(ops) : ops[i].phase = "undo"}
            mv == SelectSeq(SubSeq(ops, (IF I = {} THEN 0 ELSE MaxOf(I)) + 1, Len(ops)),
                            IsGoodMove)
        IN  /\ Len(undo_actions) = Len(mv)
            /\ \A k \in 1..Len(mv) : undo_actions[k] = <<mv[k].dst, mv[k].src>>

C2_Witness ==
    /\ pc = "run"
    /\ undo_actions # <<>>
    /\ \E i \in (LastCall.nops + 1)..Len(ops) : ops[i].call = "move" /\ ~ops[i].ok

\* C3: when the loop of a real run ends, every eligible matching file that did not fail has
\* been moved (its content is at the destination recorded for it) and counted in the
\* category of its first matching rule, the failed ones are counted under "Unorganized"
\* with the unmatched ones, and the run has added n-k entries to the undo log.
C3_PartialFailureIsolation ==
    (LoopDone /\ ~dry_run) =>
        \A failed \in {Failed} : \A moved \in {Matching \ failed} :
            /\ Len(undo_actions) = Len(LastCall.undo_actions) + Cardinality(moved)
            /\ stats[Unorganized] = Cardinality(failed) + Cardinality(Eligible \ Matching)
            /\ \A i \in 1..Len(rules) :
                  stats[rules[i].name] =
                      Cardinality({f \in moved : MinOf(MatchingRules(f)) = i})
            /\ \A f \in moved :
                  \E k \in (Len(LastCall.undo_actions) + 1)..Len(undo_actions) :
                      /\ undo_actions[k][2] = f
                      /\ undo_actions[k][1] \in DOMAIN files
                      /\ files[undo_actions[k][1]] = LastCall.files[f]

C3_Witness == LoopDone /\ ~dry_run /\ Failed # {} /\ Matching \ Failed # {}

\* C4: a dry run leaves the files and the directories under the root as they were and the
\* undo log empty.
C4_DryRunMutatesNothing ==
    (dry_run /\ pc = "idle" /\ calls # <<>> /\ LastCall.op = "organize")
    => (files = LastCall.files /\ dirs = LastCall.dirs /\ undo_actions = <<>>)

\* C5: the counts of Stats add up to the number of eligible files handled so far, one per
\* eligible file, and the mapping passed to onStats adds up to the number of eligible files
\* of the run.
C5_StatsSum ==
    /\ pc = "run" =>
          SumStats(stats) =
              Cardinality({i \in 1..processed_files_count :
                              recursive \/ Len(files_to_process[i]) = 1})
    /\ (pc = "idle" /\ trace # <<>> /\ trace[Len(trace)].cb = "stats") =>
          SumStats(trace[Len(trace)].arg) = Cardinality(Eligible)

C5_Witness ==
    /\ pc = "idle" /\ trace # <<>> /\ trace[Len(trace)].cb = "stats"
    /\ Eligible # {} /\ RunFiles \ Eligible # {}
    /\ \E i \in (LastCall.nops + 1)..Len(ops) : ~ops[i].ok

\* C6: a call of organize_files with a root that is no directory or with an empty rule list
\* reports the one log line "Validation failed", no progress and no stats, touches no file
\* or directory and leaves the undo log as it was.
C6_ValidationGate ==
    \A i \in DOMAIN calls :
        (calls[i].op = "organize" /\ (Root \notin calls[i].dirs \/ rules = <<>>)) =>
            /\ CallReturned(i)
            /\ Len(CallTrace(i)) = 1
            /\ CallTrace(i)[1].cb = "log" /\ CallTrace(i)[1].kind = "ValidationFailed"
            /\ CallOps(i) = <<>>
            /\ CallEnd(i).files = calls[i].files
            /\ CallEnd(i).dirs = calls[i].dirs
            /\ CallEnd(i).undo_actions = calls[i].undo_actions

C6_Witness ==
    /\ calls # <<>> /\ LastCall.op = "organize"
    /\ rules = <<>> /\ Root \in dirs /\ files # <<>>

\* C7: undo takes the entries of its log last to first: its k-th attempt is for the k-th
\* entry from the end, and every move-back goes from the entry's new path to its original
\* path, right after the parent directory of the original path was made sure to exist.
C7_UndoIsLifo ==
    \A i \in DOMAIN calls :
        calls[i].op = "undo" =>
            LET log == calls[i].undo_actions
                seg == CallOps(i)
            IN  \A j \in 1..Len(seg) :
                    LET k == Len(SelectSeq(SubSeq(seg, 1, j), IsMkdir))
                        entry == log[Len(log) + 1 - k]
                    IN  /\ k >= 1 /\ k <= Len(log)
                        /\ seg[j].src = entry[1]
                        /\ seg[j].call = "mkdir" => seg[j].dst = Parent(entry[2])
                        /\ seg[j].call = "move" =>
                              /\ seg[j].dst = entry[2]
                              /\ seg[j - 1].call = "mkdir" /\ seg[j - 1].ok
                              /\ Parent(entry[2]) \in dirs

C7_Witness ==
    /\ pc = "idle" /\ calls # <<>> /\ LastCall.op = "undo"
    /\ Len(LastCall.undo_actions) >= 2
    /\ Len(SelectSeq(CallOps(Len(calls)), IsGoodMove)) >= 2

\* C8: when undo returns the undo log is empty, whether or not a reversal failed, and an
\* undo called with an empty log touches no file or directory.
C8_UndoIsSingleShot ==
    /\ (pc = "idle" /\ calls # <<>> /\ LastCall.op = "undo") => undo_actions = <<>>
    /\ \A i \in DOMAIN calls :
          (calls[i].op = "undo" /\ calls[i].undo_actions = <<>>) =>
              /\ CallReturned(i)
              /\ Len(CallOps(i)) = 0
              /\ CallEnd(i).files = calls[i].files
              /\ CallEnd(i).dirs = calls[i].dirs

C8_Witness ==
    /\ pc = "idle" /\ Len(calls) >= 3
    /\ calls[Len(calls)].op = "undo" /\ calls[Len(calls) - 1].op = "undo"
    /\ calls[Len(calls) - 1].undo_actions # <<>>
    /\ \E j \in 1..Len(CallOps(Len(calls) - 1)) : ~CallOps(Len(calls) - 1)[j].ok

\* C9: an undo that has returned has attempted every entry of its log exactly once, failed
\* attempts included, and every move-back that went through left its file at the original
\* path (or handed it to a later move-back of the same undo).
C9_UndoAttemptsEveryEntry ==
    \A i \in DOMAIN calls :
        (calls[i].op = "undo" /\ CallReturned(i)) =>
            LET log == calls[i].undo_actions
                seg == CallOps(i)
                mk == SelectSeq(seg, IsMkdir)
            IN  /\ Len(mk) = Len(log)
                /\ \A k \in 1..Len(mk) : mk[k].src = log[Len(log) + 1 - k][1]
                /\ Len(SelectSeq(seg, IsMove)) = Cardinality({k \in 1..Len(mk) : mk[k].ok})
                /\ \A j \in 1..Len(seg) :
                      IsGoodMove(seg[j]) =>
                          \/ seg[j].dst \in DOMAIN CallEnd(i).files
                          \/ Append(seg[j].dst, Name(seg[j].src)) \in DOMAIN CallEnd(i).files
                          \/ \E j2 \in (j + 1)..Len(seg) :
                                IsGoodMove(seg[j2]) /\ seg[j2].src = seg[j].dst

C9_Witness ==
    /\ pc = "idle" /\ calls # <<>> /\ LastCall.op = "undo"
    /\ Len(LastCall.undo_actions) >= 2
    /\ LET seg == CallOps(Len(calls))
       IN  /\ ~seg[1].ok \/ (seg[2].call = "move" /\ ~seg[2].ok)
           /\ IsGoodMove(seg[Len(seg)])
           /\ LastCall.undo_actions[1][2] \in DOMAIN files

\* C10: _get_file_destination returns the name of the first rule of the list whose
\* extensions contain the lower-cased suffix of the file, and ("Unorganized", None) when
\* no rule does.
C10_FirstRuleWins ==
    resolved.file_path # <<>> =>
        LET I == MatchingRules(resolved.file_path)
        IN  IF I = {}
              THEN resolved.rule_name = Unorganized /\ resolved.destination = NoneDest
              ELSE /\ resolved.rule_name = rules[MinOf(I)].name
                   /\ resolved.destination # NoneDest
                   /\ resolved.destination[1] = rules[MinOf(I)].name

C10_Witness ==
    /\ resolved.file_path # <<>>
    /\ Cardinality(MatchingRules(resolved.file_path)) >= 2
    /\ resolved.rule_name = rules[1].name

\* C11: _get_file_destination matches a file to a rule exactly when the file's suffix equals
\* one of the rule's extension entries ignoring letter case, whatever the case of either.
C11_CaseInsensitiveMatch ==
    resolved.file_path # <<>> =>
        (resolved.destination # NoneDest <=>
            \E i \in 1..Len(rules) : \E e \in 1..Len(rules[i].extensions) :
                Lower(rules[i].extensions[e]) = Lower(Suffix(Name(resolved.file_path))))

\* C12: the destination of a matched file is the folder of its rule, then the directories
\* between the root and the file, then the file's name, carrying a disambiguator only when
\* that path is taken.
C12_DestinationKeepsSubdirectories ==
    (resolved.file_path # <<>> /\ resolved.destination # NoneDest) =>
        LET f == resolved.file_path
            d == resolved.destination
        IN  /\ \E i \in 1..Len(rules) : rules[i].name = resolved.rule_name
            /\ Len(d) = Len(f) + 1
            /\ d[1] = resolved.rule_name
            /\ SubSeq(d, 2, Len(d) - 1) = Parent(f)
            /\ IF Exists(files, dirs, <<resolved.rule_name>> \o f)
                 THEN \E N \in 1..(MaxResolveFiles + 1) : Name(d) = WithDisambiguator(Name(f), N)
                 ELSE Name(d) = Name(f)

C12_Witness ==
    /\ resolved.file_path = <<NameS, NameAJ>>
    /\ resolved.destination = <<NameI, NameS, NameA1J>>

\* C13: get_unique_filename returns the name it was given when the destination directory
\* has no entry of that name, and otherwise the numbered name of the smallest N >= 1 that
\* the directory has no entry of; what it returns never names an entry of the directory.
C13_SmallestFreeNumber ==
    unique.filename # <<>> =>
        /\ ~Exists(files, dirs, Append(unique.destination, unique.result))
        /\ IF ~Exists(files, dirs, Append(unique.destination, unique.filename))
             THEN unique.result = unique.filename
             ELSE \E N \in 1..(MaxUniqueFiles + 1) :
                     /\ unique.result = NumberedName(unique.filename, N)
                     /\ \A M \in 1..(N - 1) :
                           Exists(files, dirs,
                                  Append(unique.destination, NumberedName(unique.filename, M)))

C13_Witness ==
    /\ unique.destination = <<NameI>>
    /\ unique.filename = NameAJ
    /\ unique.result = NameA2J

\* C14: a name get_unique_filename had to change is the name it was given with _N put right
\* before its last dot (a.t.g becomes a.t_1.g), or at its end when it has no dot (R becomes
\* R_1), and nothing else of the name is changed.
C14_DisambiguatorPosition ==
    (unique.filename # <<>> /\ unique.result # unique.filename) =>
        \E N \in 1..(MaxUniqueFiles + 1) :
            unique.result = WithDisambiguator(unique.filename, N)

\* C15: in a run with recursive = false, a file that is not directly in the root is not
\* touched (no mkdir, no move, it stays where it is), no log line is about it and no Stats
\* category counts it, but it is one of total_files and a progress callback follows it like
\* any other file; every operation and log line of the run is about a file of the root.
C15_NonRecursiveSkips ==
    (pc = "run" /\ ~recursive) =>
        \A tr \in {CallTrace(Len(calls))} : \A os \in {CallOps(Len(calls))} :
        \A skipped \in {{i \in 1..processed_files_count : Len(files_to_process[i]) > 1}} :
            /\ \A j \in 1..Len(os) : Len(os[j].src) = 1
            /\ \A j \in 1..Len(tr) : tr[j].cb = "log" => Len(LogFile(tr[j])) = 1
            /\ \A i \in skipped :
                  /\ files_to_process[i] \in DOMAIN files
                  /\ files[files_to_process[i]] = LastCall.files[files_to_process[i]]
            /\ SumStats(stats) = processed_files_count - Cardinality(skipped)
            /\ total_files = Cardinality(DOMAIN LastCall.files)
            /\ Len(SelectSeq(tr, IsProgress)) = processed_files_count
            /\ \A k \in (Len(LastCall.undo_actions) + 1)..Len(undo_actions) :
                  Len(undo_actions[k][2]) = 1

C15_Witness ==
    /\ LoopDone /\ ~recursive /\ ~dry_run
    /\ RunFiles \ Eligible # {}
    /\ Len(undo_actions) > Len(LastCall.undo_actions)
    /\ trace[Len(trace)].cb = "progress" /\ trace[Len(trace) - 1].cb = "progress"

\* C16: the loop reports progress once after each file, the k-th report carrying
\* floor(k * 100 / total_files); so the reports are integers from 0 to 100, never decrease,
\* and the report after the last file is 100.
C16_ProgressIsFloor ==
    pc = "run" =>
        /\ Len(trace) = processed_files_count
        /\ \A k \in 1..Len(trace) :
              /\ trace[k].cb = "progress"
              /\ trace[k].arg = (k * 100) \div total_files
              /\ trace[k].arg \in 0..100
              /\ k > 1 => trace[k - 1].arg <= trace[k].arg
        /\ (processed_files_count = total_files /\ total_files > 0) =>
              trace[Len(trace)].arg = 100

\* C17: a call of organize_files that passed validation and returned has reported, in this
\* order: per-file log lines and progress values only, then the terminal log line
\* ("Organization complete!" for a real run, "Dry run complete..." for a dry run), then the
\* stats, once and last; until it returns it has reported neither of the last two.
C17_CallbackOrder ==
    \A i \in DOMAIN calls :
        (calls[i].op = "organize" /\ validate(calls[i].dirs, rules)) =>
            \A tr \in {CallTrace(i)} :
            \A n \in {IF CallReturned(i) THEN Len(tr) - 2 ELSE Len(tr)} :
                /\ n >= 0
                /\ \A j \in 1..n :
                      /\ tr[j].cb \in {"log", "progress"}
                      /\ tr[j].kind \notin {"Complete", "DryComplete", "ValidationFailed"}
                /\ CallReturned(i) =>
                      /\ tr[n + 1].cb = "log"
                      /\ tr[n + 1].kind = (IF dry_run THEN "DryComplete" ELSE "Complete")
                      /\ tr[n + 2].cb = "stats"

C17_Witness ==
    /\ pc = "idle" /\ calls # <<>> /\ LastCall.op = "organize"
    /\ validate(LastCall.dirs, rules)
    /\ dry_run
    /\ Len(SelectSeq(CallTrace(Len(calls)), IsLog)) >= 3
    /\ Len(SelectSeq(CallTrace(Len(calls)), IsProgress)) >= 2

\* C18: a call of get_preview leaves the files and the directories under the root and the
\* undo log as they were, and makes no mkdir or move call.
C18_PreviewMutatesNothing ==
    \A i \in DOMAIN calls :
        calls[i].op = "preview" =>
            /\ CallEnd(i).files = calls[i].files
            /\ CallEnd(i).dirs = calls[i].dirs
            /\ CallEnd(i).undo_actions = calls[i].undo_actions
            /\ CallOps(i) = <<>>

C18_Witness ==
    /\ pc = "idle" /\ calls # <<>> /\ LastCall.op = "preview"
    /\ \E f \in DOMAIN preview :
          /\ preview[f].kind = "Destination"
          /\ Parent(preview[f].path) \notin dirs

\* C19: get_preview returns the empty mapping when validation fails; otherwise its keys are
\* the files that are eligible under the recursive policy, each mapped to "Unorganized"
\* when no rule matches it and else to its destination (the folder of the first matching
\* rule, the file's directories, a name the directory has no entry of) or, when handling it
\* raised, to an error value, which costs no other file its entry.
C19_PreviewEntries ==
    (pc = "idle" /\ calls # <<>> /\ LastCall.op = "preview") =>
        IF Root \notin dirs \/ rules = <<>>
          THEN DOMAIN preview = {}
          ELSE /\ DOMAIN preview = {f \in DOMAIN files : recursive \/ Len(f) = 1}
               /\ Cardinality({f \in DOMAIN preview : preview[f].kind = "Error"})
                     <= MaxPreviewErrors - budget.errors
               /\ \A f \in DOMAIN preview :
                     IF MatchingRules(f) = {}
                       THEN preview[f].kind = "Unorganized"
                       ELSE \/ preview[f].kind = "Error"
                            \/ /\ preview[f].kind = "Destination"
                               /\ Len(preview[f].path) = Len(f) + 1
                               /\ preview[f].path[1] = rules[MinOf(MatchingRules(f))].name
                               /\ SubSeq(preview[f].path, 2, Len(f)) = Parent(f)
                               /\ ~Exists(files, dirs, preview[f].path)
                               /\ \/ Name(preview[f].path) = Name(f)
                                  \/ Exists(files, dirs, <<preview[f].path[1]>> \o f)

C19_Witness ==
    /\ pc = "idle" /\ calls # <<>> /\ LastCall.op = "preview"
    /\ DOMAIN files \ DOMAIN preview # {}
    /\ \E f \in DOMAIN preview : preview[f].kind = "Error"
    /\ \E f \in DOMAIN preview : preview[f].kind = "Destination"

\* C20: when a real run follows get_preview on the same engine and the same untouched tree
\* and nothing fails in either, every file the run moves goes to the destination the
\* preview reported for it.
C20_PreviewFidelity ==
    (/\ pc = "run"
     /\ ~dry_run
     /\ Len(calls) >= 2
     /\ calls[Len(calls) - 1].op = "preview"
     /\ calls[Len(calls) - 1].files = LastCall.files
     /\ calls[Len(calls) - 1].dirs = LastCall.dirs
     /\ budget.errors = MaxPreviewErrors
     /\ \A i \in (LastCall.nops + 1)..Len(ops) : ops[i].ok)
    => \A k \in (Len(LastCall.undo_actions) + 1)..Len(undo_actions) :
          /\ undo_actions[k][2] \in DOMAIN preview
          /\ preview[undo_actions[k][2]].kind = "Destination"
          /\ preview[undo_actions[k][2]].path = undo_actions[k][1]

\* C21: when a call of organize_files has returned, the undo log holds the moves of that
\* call and nothing else: what an earlier call on the same engine recorded is gone.
C21_OneUndoBatch ==
    (pc = "idle" /\ calls # <<>> /\ LastCall.op = "organize") =>
        LET mv == SelectSeq(CallOps(Len(calls)), IsGoodMove)
        IN  /\ Len(undo_actions) = Len(mv)
            /\ \A k \in 1..Len(mv) : undo_actions[k] = <<mv[k].dst, mv[k].src>>
\* C22: two calls of organize_files in a row on a dry-run engine hand the same stats to
\* update_stats, once each, and the undo log is empty after the first and after the second.
C22_DryRunsRepeat ==
    (/\ dry_run
     /\ pc = "idle"
     /\ Len(calls) >= 2
     /\ LastCall.op = "organize"
     /\ calls[Len(calls) - 1].op = "organize") =>
        /\ SelectSeq(CallTrace(Len(calls)), IsStats)
             = SelectSeq(CallTrace(Len(calls) - 1), IsStats)
        /\ validate(dirs, rules) => Len(SelectSeq(CallTrace(Len(calls)), IsStats)) = 1
        /\ LastCall.undo_actions = <<>>
        /\ undo_actions = <<>>

C22_Witness ==
    /\ dry_run
    /\ pc = "idle"
    /\ Len(calls) = 2
    /\ trace # <<>>
    /\ IsStats(trace[Len(trace)])
    /\ \E c \in DOMAIN trace[Len(trace)].arg : c # Unorganized /\ trace[Len(trace)].arg[c] > 0
    /\ trace[Len(trace)].arg[Unorganized] > 0
\* C25: a second real call of organize_files, on the tree the first one left, moves no
\* file, whether the engine is recursive or not.
C25_RerunMovesNothing ==
    (/\ ~dry_run
     /\ Len(calls) >= 2
     /\ LastCall.op = "organize"
     /\ calls[Len(calls) - 1].op = "organize") =>
        \A i \in (LastCall.nops + 1)..Len(ops) : ~IsGoodMove(ops[i])
\* C23: no shutil.move of organize_files or of undo is given a destination at which a file
\* or a directory exists, and no step changes the number of regular files or loses the
\* content of one.
C23_NoOverwrite ==
    [][/\ \A i \in (Len(ops) + 1)..Len(ops') :
             IsMove(ops'[i]) => ~Exists(files, dirs, ops'[i].dst)
       /\ Cardinality(DOMAIN files') = Cardinality(DOMAIN files)
       /\ {files'[p] : p \in DOMAIN files'} = {files[p] : p \in DOMAIN files}]_vars
\* the log lines about one file, and the files organize_files does not leave alone
IsFileLog(e) == IsLog(e) /\ e.kind \notin {"ValidationFailed", "Complete", "DryComplete"}
NotSkipped(f) == ~Skipped(recursive, f)
Aborted == pc = "idle" /\ CallTrace(Len(calls)) = <<LogEntry("ValidationFailed", <<>>)>>

C24_Handling ==
    (calls # <<>> /\ LastCall.op = "organize") =>
        IF Aborted THEN CallOps(Len(calls)) = <<>>
        ELSE LET logged == SelectSeq(CallTrace(Len(calls)), IsFileLog)
                 handled == SelectSeq(SubSeq(files_to_process, 1, processed_files_count),
                                      NotSkipped)
             IN  /\ RunFiles = DOMAIN LastCall.files
                 /\ Len(files_to_process) = Cardinality(RunFiles)
                 /\ Len(logged) = Len(handled)
                 /\ \A k \in 1..Len(logged) : LogFile(logged[k]) = handled[k]
                 /\ Len(SelectSeq(CallTrace(Len(calls)), IsProgress)) = processed_files_count
                 /\ \A i \in 1..Len(CallOps(Len(calls))) :
                       \E k \in 1..processed_files_count :
                           files_to_process[k] = CallOps(Len(calls))[i].src
                 /\ pc = "idle" => /\ processed_files_count = Len(files_to_process)
                                   /\ IsStats(trace[Len(trace)])

\* C24: a call of organize_files either stops at the validation gate, having handled no
\* file, or handles the files it enumerated at its start, each once and in the order of the
\* enumeration, whatever its own moves create, and then calls update_stats; a call that
\* has entered its loop always gets there.
C24_RunCompletes ==
    /\ []C24_Handling
    /\ (pc = "run") ~> (pc = "idle" /\ trace # <<>> /\ IsStats(trace[Len(trace)]))

C24_Witness ==
    /\ pc = "idle"
    /\ calls # <<>>
    /\ ~Aborted
    /\ Len(files_to_process) = 2
    /\ \E i \in 1..Len(ops) : ~ops[i].ok
    /\ \E i \in 1..Len(ops) : IsGoodMove(ops[i])
    /\ IsStats(trace[Len(trace)])
\* C26: while organize_files of a thread is inside its loop, no step changes the rule list
\* its Organizer iterates over, and every rule of that list has a counter in the stats the
\* call built when it started.
C26_RulesFixedDuringRun ==
    [][\A t \in 1..Len(threads) :
          threads[t].pc = "run" =>
              /\ rule_lists'[threads[t].rules] = rule_lists[threads[t].rules]
              /\ \A i \in 1..Len(rule_lists[threads[t].rules]) :
                    rule_lists[threads[t].rules][i].name \in DOMAIN threads[t].stats]_vars

\* C27: at no time are two calls of organize_files at work on the selected directory.
C27_OneRunAtATime == Cardinality({t \in 1..Len(threads) : threads[t].pc = "run"}) <= 1

\* C28: undo() of an Organizer is not called, and is not inside its loop, while
\* organize_files of the same Organizer is running on its thread.
C28_UndoNotDuringRun ==
    /\ gui.undoing # 0 => threads[gui.undoing].pc # "run"
    /\ \A i \in 1..Len(calls) :
          (calls[i].op = "undo_organization" /\ calls[i].organize_thread # 0) =>
              calls[i].threads[calls[i].organize_thread].pc # "run"

\* C29: when the runs were started one after the other, each after the one before had
\* returned, and Undo Last Organization, clicked after the last of them returned, has
\* returned too, the files of the most recent run that recorded moves are back at their
\* original paths, whatever runs without a move came after that run.
C29_LastBatchUndoable ==
    (/\ calls # <<>>
     /\ calls[Len(calls)].op = "undo_organization"
     /\ gui.undoing = 0
     /\ \A i \in 1..(Len(calls) - 1) : calls[i].quiet
     /\ \A t \in 1..Len(threads) : calls[Len(calls)].threads[t].pc = "finished") =>
        \A r \in 1..Len(threads) :
            (/\ calls[Len(calls)].threads[r].undo_actions # <<>>
             /\ \A t \in (r + 1)..Len(threads) :
                   calls[Len(calls)].threads[t].undo_actions = <<>>) =>
                \A k \in 1..Len(calls[Len(calls)].threads[r].undo_actions) :
                    calls[Len(calls)].threads[r].undo_actions[k][2] \in DOMAIN files
====
